---- MODULE Spec2Model ----
(***************************************************************************)
(* ci/filter_imports.py: a line filter that removes every import statement *)
(* except "import Foundation".  The program is the loop                    *)
(*                                                                         *)
(*     for line in fileinput.input():                                      *)
(*         if line.startswith('import'):                                   *)
(*             if "import Foundation" in line:                             *)
(*                 sys.stdout.write(line)                                  *)
(*         else:                                                           *)
(*             sys.stdout.write(line)                                      *)
(*                                                                         *)
(* Text is a sequence of one-character strings.  The model follows the     *)
(* Python 3 runtime: fileinput opens a named file in text mode with        *)
(* universal newlines (a line ends at \n, \r or \r\n and is delivered with *)
(* the terminator \n), while the argument "-" (or an empty argument list)  *)
(* reads sys.stdin, whose lines end at \n only and are not translated.     *)
(* A source may be a stream (standard input, or a file name that stands    *)
(* for a pipe, a terminal or a device): its text is delivered once, and it *)
(* may signal end of file and deliver more text later.  A source may fail  *)
(* to open or to read.  Standard output is unbuffered, buffered or line    *)
(* buffered, as io.TextIOWrapper over io.BufferedWriter is; it may take    *)
(* only so many characters, and may be one of the files that are read.     *)
(***************************************************************************)
EXTENDS Integers, Sequences, FiniteSets

\* ------------------------------------------------------------ bounds

\* Largest number of command-line arguments.
MaxArgs == 2
\* Largest number of text pieces (lines or fragments) over all sources.
MaxLines == 2

\* ------------------------------------------------------------ text

LF == "\n"
CR == "\r"
\* An end-of-file indication of a stream that more text may follow (a read
\* of zero bytes, as a terminal gives at Ctrl-D on an empty line).  It is
\* not a character: no line read holds it.
EOT == "<eof>"

\* The literal 'import' of line 8.
Import == <<"i","m","p","o","r","t">>
\* The literal "import Foundation" of line 9.
ImportFoundation ==
  <<"i","m","p","o","r","t"," ","F","o","u","n","d","a","t","i","o","n">>

\* str.startswith(prefix)
StartsWith(line, prefix) ==
  /\ Len(line) >= Len(prefix)
  /\ SubSeq(line, 1, Len(prefix)) = prefix

\* sub in line
Contains(sub, line) ==
  \E i \in 1..(Len(line) - Len(sub) + 1) :
     SubSeq(line, i, i + Len(sub) - 1) = sub

\* line without its leading blanks.
RECURSIVE LStrip(_)
LStrip(line) ==
  IF line # <<>> /\ Head(line) = " " THEN LStrip(Tail(line)) ELSE line

\* ------------------------------------------------------------ writing

\* The value of "no file", and of "no limit" to what standard output takes.
NoFile == "<none>"
NoLimit == -1

\* The number of characters sys.stdout (io.TextIOWrapper) collects before
\* it hands them to its buffer, and the size of that buffer
\* (io.BufferedWriter), which is the block size of what standard output is:
\* of a file or a pipe, and of a terminal.
ChunkSize == 8192
FileBlock == 4096
TtyBlock == 1024

\* sys.stdout as the program finds it: its buffering (mode: unbuffered
\* under PYTHONUNBUFFERED, line buffered on a terminal, else buffered), the
\* size of its buffer (block), the number of characters the descriptor takes
\* before it refuses (room), the text the descriptor took (out), the text in
\* the buffer (buf), the text sys.stdout has collected and not handed to the
\* buffer yet (pend), and whether the last operation raised.  A stdout that
\* is closed (sys.stdout is None) raises at every write as an unbuffered one
\* without room does.
StreamOf(snk, out, buf, pend) ==
  [mode |-> snk.mode, block |-> snk.block, room |-> snk.room,
   out |-> out, buf |-> buf, pend |-> pend, raised |-> FALSE]

\* A stdout that takes everything, as a second run writes to.
Pipe == [mode |-> "buffered", block |-> FileBlock, room |-> NoLimit,
         out |-> <<>>, buf |-> <<>>, pend |-> <<>>, raised |-> FALSE]

\* The text the stream holds: what the descriptor took and what is on its
\* way there.
TextOf(s) == s.out \o s.buf \o s.pend

\* How many of the characters of text the descriptor takes now.
Take(s, text) ==
  IF s.room = NoLimit \/ Len(text) <= s.room - Len(s.out)
    THEN Len(text)
    ELSE IF s.room > Len(s.out) THEN s.room - Len(s.out) ELSE 0

\* BufferedWriter.flush: the buffer is written to the descriptor; what the
\* descriptor does not take stays in the buffer and the flush raises.
FlushBuffer(s) ==
  LET n == Take(s, s.buf) IN
  [s EXCEPT !.out = @ \o SubSeq(s.buf, 1, n),
            !.buf = SubSeq(s.buf, n + 1, Len(s.buf)),
            !.raised = n < Len(s.buf)]

\* BufferedWriter.write(data): data that fits is put in the buffer.  Else
\* the buffer is flushed first; data larger than the buffer is then written
\* to the descriptor until what is left fits, which raises when the
\* descriptor refuses before that and loses what is left.
BufferWrite(s, data) ==
  IF Len(data) <= s.block - Len(s.buf) THEN [s EXCEPT !.buf = @ \o data]
  ELSE LET f == FlushBuffer(s) IN
       IF f.raised THEN f
       ELSE IF Len(data) <= f.block THEN [f EXCEPT !.buf = data]
       ELSE LET n == Take(f, data)
                rest == SubSeq(data, n + 1, Len(data))
            IN IF n = Len(data) THEN [f EXCEPT !.out = @ \o data]
               ELSE IF n = 0 \/ Len(rest) > f.block
                 THEN [f EXCEPT !.out = @ \o SubSeq(data, 1, n),
                                !.raised = TRUE]
                 ELSE [f EXCEPT !.out = @ \o SubSeq(data, 1, n),
                                !.buf = rest]

\* TextIOWrapper hands what it has collected to its buffer and keeps none
\* of it, whether that raises or not.  Unbuffered, the buffer is the
\* descriptor: one write, which raises if nothing is taken; what is taken
\* short of the text is all that is written of it.
WriteFlush(s) ==
  IF s.pend = <<>> THEN s
  ELSE IF s.mode = "unbuffered"
    THEN LET n == Take(s, s.pend) IN
         [s EXCEPT !.out = @ \o SubSeq(s.pend, 1, n),
                   !.pend = <<>>,
                   !.raised = (n = 0)]
    ELSE BufferWrite([s EXCEPT !.pend = <<>>], s.pend)

\* sys.stdout.flush(): the collected text goes to the buffer and, unless
\* that raised, the buffer to the descriptor.
Flush(s) ==
  LET w == WriteFlush([s EXCEPT !.raised = FALSE]) IN
  IF w.raised \/ w.mode = "unbuffered" THEN w ELSE FlushBuffer(w)

\* A write that puts the text before what was written (a reordering bug).
WritePrepend(s, line) == [s EXCEPT !.pend = line \o @]

\* sys.stdout.write(line).  If the line would make the collected text
\* longer than a chunk, that text is handed on first, and the line is not
\* accepted if this raises.  The line is collected.  The collected text is
\* handed on if it is a chunk or more, if standard output is unbuffered, or
\* if it is line buffered and the line holds a line end; in that last case
\* the buffer is flushed as well.
Write(s, line) ==
  IF line = <<>> THEN s
  ELSE
  LET ends == s.mode = "line" /\ \E i \in 1..Len(line) : line[i] \in {CR, LF}
      a == IF s.pend # <<>> /\ Len(s.pend) + Len(line) > ChunkSize
             THEN WriteFlush(s) ELSE s
  IN IF a.raised THEN a
     ELSE LET b == [a EXCEPT !.pend = @ \o line]
              c == IF ends \/ b.mode = "unbuffered" \/ Len(b.pend) >= ChunkSize
                     THEN WriteFlush(b) ELSE b
          IN IF c.raised \/ ~ends THEN c ELSE FlushBuffer(c)

\* Variants of the loop body with one plausible bug each: a blank line in
\* place of a dropped line; a kept import Foundation written once only; the
\* kept line written trimmed.
BodyBlank(line, out) ==
  IF StartsWith(line, Import)
    THEN IF Contains(ImportFoundation, line)
           THEN Write(out, line)
           ELSE Write(out, <<LF>>)
    ELSE Write(out, line)

BodyOnce(line, out) ==
  IF StartsWith(line, Import)
    THEN IF Contains(ImportFoundation, line)
              /\ ~Contains(ImportFoundation, TextOf(out))
           THEN Write(out, line)
           ELSE out
    ELSE Write(out, line)

BodyTrimmedWrite(line, out) ==
  IF StartsWith(line, Import)
    THEN IF Contains(ImportFoundation, line)
           THEN Write(out, line)
           ELSE out
    ELSE Write(out, LStrip(line))

\* The body of the loop, lines 8-12: sys.stdout after the iteration on line.
Body(line, out) ==
  IF StartsWith(line, Import)
    THEN IF Contains(ImportFoundation, line)
           THEN Write(out, line)
           ELSE out
    ELSE Write(out, line)

\* ------------------------------------------------------------ reading

\* The argument that names standard input, and the names of files.
Dash == "-"
FileNames == {"a", "b"}

\* Index of the first character of text that is in the set ends (0: none).
FirstIn(text, ends) ==
  LET at == {i \in 1..Len(text) : text[i] \in ends} IN
  IF at = {} THEN 0 ELSE CHOOSE i \in at : \A j \in at : i <= j

\* readline() of a named file (text mode, universal newlines): raw is what
\* is consumed from the file, line what is delivered, rest what stays unread.
\* A line without a line end ends at the end-of-file indication that
\* follows it, which the read uses up.  So does a line that ends in \r
\* directly before an end-of-file indication: the decoder holds the \r back
\* to see whether \n follows, and the read that tells it uses the
\* indication up.
ReadLineFile(text) ==
  LET i == FirstIn(text, {CR, LF, EOT}) IN
  IF i = 0
    THEN [raw |-> text, line |-> text, rest |-> <<>>]
    ELSE IF text[i] = EOT
    THEN [raw  |-> SubSeq(text, 1, i - 1),
          line |-> SubSeq(text, 1, i - 1),
          rest |-> SubSeq(text, i + 1, Len(text))]
    ELSE IF text[i] = CR /\ i < Len(text) /\ text[i + 1] = EOT
    THEN [raw  |-> SubSeq(text, 1, i),
          line |-> SubSeq(text, 1, i - 1) \o <<LF>>,
          rest |-> SubSeq(text, i + 2, Len(text))]
    ELSE LET n == IF text[i] = CR /\ i < Len(text) /\ text[i + 1] = LF
                    THEN i + 1 ELSE i
         IN [raw  |-> SubSeq(text, 1, n),
             line |-> SubSeq(text, 1, i - 1) \o <<LF>>,
             rest |-> SubSeq(text, n + 1, Len(text))]

\* readline() of sys.stdin: a line ends at \n only, nothing is translated.
ReadLineStdin(text) ==
  LET i == FirstIn(text, {LF, EOT}) IN
  IF i = 0
    THEN [raw |-> text, line |-> text, rest |-> <<>>]
    ELSE IF text[i] = LF
    THEN [raw  |-> SubSeq(text, 1, i),
          line |-> SubSeq(text, 1, i),
          rest |-> SubSeq(text, i + 1, Len(text))]
    ELSE [raw  |-> SubSeq(text, 1, i - 1),
          line |-> SubSeq(text, 1, i - 1),
          rest |-> SubSeq(text, i + 1, Len(text))]

\* readline() returns '': the source has no text left, or it signals end
\* of file here.
AtEof(text) == IF text = <<>> THEN TRUE ELSE Head(text) = EOT

ReadLine(name, text) ==
  IF name = Dash THEN ReadLineStdin(text) ELSE ReadLineFile(text)

\* A variant without the fallback to standard input.
InputFilesNoDefault(args) == args

\* fileinput.input(): the sources are sys.argv[1:], or ('-',) if that is empty.
InputFiles(args) == IF args = <<>> THEN <<Dash>> ELSE args

\* The source fileinput opens next: the first of the remaining ones.
NextFile(fs) == Head(fs)

\* ------------------------------------------------------------ inputs

\* The pieces the text of the sources is made of: lines and fragments of
\* lines.  A piece without a line end joins the piece that follows it.
\* These are the lines the filter's tests tell apart, with the line ends a
\* source may hold.
Chunks == {
  <<"i","m","p","o","r","t","s"," ","="," ","5",CR>>,
  <<" "," ","i","m","p","o","r","t"," ","U","I","K","i","t",LF>>,
  <<CR,LF>>,
  <<"i","m","p">>,
  <<"o","r","t"," ","U","I","K","i","t",LF>>,
  <<"i","m","p","o","r","t"," ","F","o","o","F","o","u","n","d","a","t","i","o","n",",",
    " ","i","m","p","o","r","t"," ","F","o","u","n","d","a","t","i","o","n",CR,LF>> }

\* Plain lines: one kept and one dropped import and an ordinary line.  They
\* are the pieces of the runs over several sources whose standard output
\* is not a plain buffered one, and of the runs checked for termination.
FairChunks == {
  <<"i","m","p","o","r","t"," ","U","I","K","i","t",LF>>,
  <<"l","e","t"," ","x",CR,LF>> }

\* Lines longer than the buffer of a terminal, than the buffer of a file,
\* and as long as a chunk.
Xs(n) == [i \in 1..n |-> "x"]
LongChunks ==
  {Xs(TtyBlock) \o <<LF>>, Xs(FileBlock) \o <<LF>>, Xs(ChunkSize - 1) \o <<LF>>}

RECURSIVE Flatten(_)
Flatten(ss) == IF ss = <<>> THEN <<>> ELSE Head(ss) \o Flatten(Tail(ss))

SeqsUpTo(S, n) == UNION {[1..k -> S] : k \in 0..n}

\* What can go wrong with a source: nothing; opening it raises (the file is
\* missing or not accessible, sys.stdin is None); or a read raises after it
\* was opened.  The run ends at the first source that fails, so that what
\* is wrong with a later one never shows: at most one source is faulty.
Faults == {"none", "open", "read"}
FaultChoices ==
  {[src |-> NoFile, how |-> "none"]} \cup
  {[src |-> n, how |-> h] : n \in FileNames \cup {Dash}, h \in {"open", "read"}}

\* Standard output as the process is given it: its buffering, the size of
\* its buffer (of a terminal when line buffered, of a file or pipe when
\* buffered), the number of characters it takes, and the file read that it
\* is appended to, if any.
Sink(mode, room, into) ==
  [mode |-> mode,
   block |-> IF mode = "line" THEN TtyBlock
             ELSE IF mode = "buffered" THEN FileBlock ELSE 0,
   room |-> room, into |-> into]

\* A buffered standard output that takes everything (a file, a pipe).
Plain == Sink("buffered", NoLimit, NoFile)

\* The other ones: unbuffered (PYTHONUNBUFFERED) or line buffered (a
\* terminal); with no room (a full device, a reader that left, a terminal
\* that went away) or room that ends within the first line or after it;
\* appended to a file that is read, where room is never without limit.
OtherSinks ==
  {Sink("unbuffered", NoLimit, NoFile), Sink("line", NoLimit, NoFile)} \cup
  {Sink("unbuffered", r, NoFile) : r \in {0, 4, 18}} \cup
  {Sink("buffered", r, NoFile) : r \in {0, 4, 18}} \cup
  {Sink("line", 0, NoFile)} \cup
  {Sink("unbuffered", 18, "a"), Sink("buffered", 18, "a")}

\* Those of them that take everything or a line of 18 characters.
SomeSinks == {s \in OtherSinks : s.room \in {NoLimit, 18}}

\* The ones of the runs over long lines.
LongSinks ==
  {Sink("buffered", r, NoFile) : r \in {NoLimit, 0, 6000}} \cup
  {Sink("line", 0, NoFile)}

\* The ones of the runs checked for termination.
FairSinks ==
  {Plain, Sink("unbuffered", 0, NoFile), Sink("buffered", 4, NoFile),
   Sink("line", 0, NoFile), Sink("unbuffered", 18, "a")}

Names(args) == {args[i] : i \in 1..Len(args)}

VARIABLES
  argv,     \* sys.argv[1:]
  disk,     \* the named files as given: [text, fault, once]
  stdin,    \* standard input as given: [text, fault]
  sink,     \* standard output as given: [mode, block, room, into]
  files,    \* fileinput: the sources not opened yet
  file,     \* fileinput: the source that is open, or NoFile
  unread,   \* per source, the text not read yet
  stdout,   \* the text the descriptor of standard output took
  buffer,   \* the text in the buffer of sys.stdout
  pending,  \* the text sys.stdout has collected for its buffer
  pc,       \* "loop" while the for loop runs, "exit" after the process ended
  exitCode, \* the exit status (-1 while running)
  opened,   \* history: the sources opened or tried, in order
  log       \* history: per iteration, the line read and what was written

vars == <<argv, disk, stdin, sink, files, file, unread, stdout, buffer,
          pending, pc, exitCode, opened, log>>

\* The files are called a, b in the order the command line first names them.
ArgvsUpTo(n) ==
  {av \in SeqsUpTo(FileNames \cup {Dash}, n) :
     \A k \in 1..Len(av) : av[k] = "b" => \E m \in 1..(k - 1) : av[m] = "a"}

\* The state the process starts in, with at most nargs arguments, the text
\* of the sources being made of at most nlines of the given pieces and
\* end-of-file indications, and standard output being one of sinks; the
\* named files are regular files, or regular files and streams.
InitFrom(pieces, sinks, streams, nargs, nlines) ==
  \E av \in ArgvsUpTo(nargs) :
  \E flt \in FaultChoices :
  \E snk \in sinks :
     \* only a source the command line designates can be at fault, or be
     \* what standard output is appended to
     /\ flt.src # NoFile => flt.src \in Names(InputFiles(av))
     /\ snk.into # NoFile => snk.into \in Names(av)
     /\ \E cs \in SeqsUpTo(pieces \cup {<<EOT>>}, nlines) :
        \E i \in 0..Len(cs) : \E j \in i..Len(cs) :
        LET ta == Flatten(SubSeq(cs, 1, i))
            tb == Flatten(SubSeq(cs, i + 1, j))
            ts == Flatten(SubSeq(cs, j + 1, Len(cs)))
            how(n) == IF flt.src = n THEN flt.how ELSE "none"
            twice(n) == \E k \in 1..Len(av) : \E m \in (k + 1)..Len(av) :
                           av[k] = n /\ av[m] = n
            eot(t) == \E k \in 1..Len(t) : t[k] = EOT
        IN
        \* a source that is not designated or cannot be opened holds no text
        /\ ("a" \notin Names(av) \/ how("a") = "open") => ta = <<>>
        /\ ("b" \notin Names(av) \/ how("b") = "open") => tb = <<>>
        /\ (Dash \notin Names(InputFiles(av)) \/ how(Dash) = "open") => ts = <<>>
        \* a file is a stream if it signals end of file before its end; one
        \* that does not and is named once is read as a regular file is
        /\ \E oa \in (IF streams /\ twice("a") THEN BOOLEAN ELSE {eot(ta)}) :
           \E ob \in (IF streams /\ twice("b") THEN BOOLEAN ELSE {eot(tb)}) :
              /\ eot(ta) => oa
              /\ eot(tb) => ob
              /\ (oa \/ ob) => streams
              \* standard output is appended to a regular file
              /\ snk.into = "a" => ~oa
              /\ snk.into = "b" => ~ob
              /\ disk = [n \in FileNames |->
                           [text  |-> IF n = "a" THEN ta ELSE tb,
                            fault |-> how(n),
                            once  |-> IF n = "a" THEN oa ELSE ob]]
              /\ unread = [n \in FileNames \cup {Dash} |->
                             IF n = Dash THEN ts
                             ELSE IF n = "a" THEN (IF oa THEN ta ELSE <<>>)
                             ELSE (IF ob THEN tb ELSE <<>>)]
        /\ argv = av
        /\ stdin = [text |-> ts, fault |-> how(Dash)]
     /\ sink = snk
  /\ files = InputFiles(argv)
  /\ file = NoFile
  /\ stdout = <<>>
  /\ buffer = <<>>
  /\ pending = <<>>
  /\ pc = "loop"
  /\ exitCode = -1
  /\ opened = <<>>
  /\ log = <<>>

\* The runs: any pieces, in regular files and streams, with a plain
\* standard output; any pieces, in regular files, with the other standard
\* outputs and one argument fewer; plain lines in regular files with some
\* of the other standard outputs; one or two long lines from one source.
Init ==
  \/ InitFrom(Chunks, {Plain}, TRUE, MaxArgs, MaxLines)
  \/ InitFrom(Chunks, OtherSinks, FALSE, MaxArgs - 1, MaxLines)
  \/ InitFrom(FairChunks, SomeSinks, FALSE, MaxArgs, MaxLines)
  \/ InitFrom(LongChunks, LongSinks, FALSE, 1, 2)

\* ------------------------------------------------------------ actions

\* What goes wrong with a source; whether it is a stream, which delivers
\* its text once; and the text it holds now: the text given and, for the
\* file standard output is appended to, what the descriptor took.
Fault(name) == IF name = Dash THEN stdin.fault ELSE disk[name].fault
Once(name) == IF name = Dash THEN TRUE ELSE disk[name].once
Text(name) ==
  IF name = Dash THEN stdin.text
  ELSE IF sink.into = name THEN disk[name].text \o stdout
  ELSE disk[name].text

\* sys.stdout as it is now.
Stream == StreamOf(sink, stdout, buffer, pending)

\* What an iteration on line hands to sys.stdout.write.
Handed(line) == TextOf(Body(line, Pipe))

\* What is added to old to give new.
Delta(old, new) == SubSeq(new, Len(old) + 1, Len(new))

\* The end of the process.  The interpreter flushes sys.stdout when the
\* program has ended and ignores what that raises, and flushes it again
\* when it shuts down: if this flush fails, the exit status is 120,
\* whatever ended the program.  What the descriptor did not take is lost.
Exit(s, code) ==
  \E f \in {Flush(Flush(s))} :
  /\ pc' = "exit"
  /\ stdout' = f.out
  /\ buffer' = <<>>
  /\ pending' = <<>>
  /\ exitCode' = IF f.raised THEN 120 ELSE code

\* fileinput opens the next source: sys.stdin for "-", else open(name).  A
\* regular file is read from its start; a stream goes on where it was left.
OpenOk ==
  /\ pc = "loop" /\ file = NoFile /\ files # <<>>
  /\ LET name == NextFile(files) IN
     /\ Fault(name) # "open"
     /\ file' = name
     /\ files' = Tail(files)
     /\ opened' = Append(opened, name)
     /\ unread' = IF Once(name) THEN unread
                  ELSE [unread EXCEPT ![name] = Text(name)]
  /\ UNCHANGED <<argv, disk, stdin, sink, stdout, buffer, pending, pc,
               exitCode, log>>

\* A variant that skips a source it cannot open and goes on with the next.
OpenFailSkips ==
  /\ pc = "loop" /\ file = NoFile /\ files # <<>>
  /\ LET name == NextFile(files) IN
     /\ Fault(name) = "open"
     /\ files' = Tail(files)
     /\ opened' = Append(opened, name)
  /\ UNCHANGED <<argv, disk, stdin, sink, file, unread, stdout, buffer,
                 pending, pc, exitCode, log>>

\* Opening the next source raises (OSError from open, AttributeError when
\* sys.stdin is None): nothing catches it, the process ends with 1.
OpenFail ==
  /\ pc = "loop" /\ file = NoFile /\ files # <<>>
  /\ LET name == NextFile(files) IN
     /\ Fault(name) = "open"
     /\ files' = Tail(files)
     /\ opened' = Append(opened, name)
  /\ Exit(Stream, 1)
  /\ UNCHANGED <<argv, disk, stdin, sink, file, unread, log>>

\* A read of the open source raises: nothing catches it, the process ends with 1.
ReadFail ==
  /\ pc = "loop" /\ file # NoFile /\ Fault(file) = "read"
  /\ Exit(Stream, 1)
  /\ UNCHANGED <<argv, disk, stdin, sink, files, file, unread, opened, log>>

\* One iteration of the loop: a line is read, decided and (if kept) handed
\* to sys.stdout.write, which does not raise.
\* What the descriptor takes of it is, when standard output is the file
\* being read, text this file now holds.
Iterate ==
  /\ pc = "loop" /\ file # NoFile /\ ~AtEof(unread[file])
  /\ \E r \in {ReadLine(file, unread[file])} :
     \E w \in {Body(r.line, Stream)} :
     /\ ~w.raised
     /\ unread' = [unread EXCEPT ![file] =
                     IF sink.into = file THEN r.rest \o Delta(stdout, w.out)
                                         ELSE r.rest]
     /\ stdout' = w.out
     /\ buffer' = w.buf
     /\ pending' = w.pend
     /\ log' = Append(log, [raw   |-> r.raw,
                            line  |-> r.line,
                            wrote |-> Handed(r.line),
                            src   |-> Len(opened)])
  /\ UNCHANGED <<argv, disk, stdin, sink, files, file, pc, exitCode, opened>>

\* An iteration whose sys.stdout.write raises (OSError, or AttributeError
\* when sys.stdout is None): the line was read, nothing catches the
\* exception and the process ends with 1, or with 120 if the write left
\* text in the buffer that the flush at shutdown cannot write either.
WriteFail ==
  /\ pc = "loop" /\ file # NoFile /\ ~AtEof(unread[file])
  /\ \E r \in {ReadLine(file, unread[file])} :
     \E w \in {Body(r.line, Stream)} :
     /\ w.raised
     /\ unread' = [unread EXCEPT ![file] = r.rest]
     /\ log' = Append(log, [raw   |-> r.raw,
                            line  |-> r.line,
                            wrote |-> Handed(r.line),
                            src   |-> Len(opened)])
     /\ Exit(w, 1)
  /\ UNCHANGED <<argv, disk, stdin, sink, files, file, opened>>

\* A variant that gives up the remaining sources at the first end of file.
EndOfFileStops ==
  /\ pc = "loop" /\ file # NoFile /\ AtEof(unread[file])
  /\ Fault(file) = "none"
  /\ file' = NoFile
  /\ files' = <<>>
  /\ unread' = IF unread[file] = <<>> THEN unread
               ELSE [unread EXCEPT ![file] = Tail(unread[file])]
  /\ UNCHANGED <<argv, disk, stdin, sink, stdout, buffer, pending, pc,
                 exitCode, opened, log>>

\* readline() returns '': fileinput closes the source (nextfile).  An
\* end-of-file indication of a stream is used up; the text after it is left
\* for the next time the stream is read.
EndOfFile ==
  /\ pc = "loop" /\ file # NoFile /\ AtEof(unread[file])
  /\ Fault(file) = "none"
  /\ file' = NoFile
  /\ unread' = IF unread[file] = <<>> THEN unread
               ELSE [unread EXCEPT ![file] = Tail(unread[file])]
  /\ UNCHANGED <<argv, disk, stdin, sink, files, stdout, buffer, pending,
                 pc, exitCode, opened, log>>

\* No source is left: StopIteration ends the loop and the process ends, with
\* 0 unless the flush of what was written fails.
Finish ==
  /\ pc = "loop" /\ file = NoFile /\ files = <<>>
  /\ Exit(Stream, 0)
  /\ UNCHANGED <<argv, disk, stdin, sink, files, file, unread, opened, log>>

Next ==
  OpenOk \/ OpenFail \/ ReadFail \/ EndOfFile \/ Finish \/ Iterate \/ WriteFail

Spec == Init /\ [][Next]_vars

\* The interpreter runs the loop to its end: a step that can be taken is taken.
FairInit == InitFrom(FairChunks, FairSinks, FALSE, MaxArgs, MaxLines)
FairSpec == FairInit /\ [][Next]_vars /\ WF_vars(Next)

\* ------------------------------------------------------------ vocabulary

\* The sources the command line designates: its arguments, read in the
\* order given, or standard input when there is none.
Sources == IF Len(argv) = 0 THEN <<Dash>> ELSE argv

\* A line the filter is to keep: it does not start with import, or it
\* holds import Foundation somewhere.
Kept(L) == ~StartsWith(L, Import) \/ Contains(ImportFoundation, L)

\* Reading a source up to its end of file: the lines read and, for a
\* stream, the text that follows the end-of-file indication.
RECURSIVE ReadToEof(_, _)
ReadToEof(name, text) ==
  IF text = <<>> THEN [lines |-> <<>>, rest |-> <<>>]
  ELSE IF AtEof(text) THEN [lines |-> <<>>, rest |-> Tail(text)]
  ELSE LET r == ReadLine(name, text)
           t == ReadToEof(name, r.rest)
       IN [lines |-> <<r.line>> \o t.lines, rest |-> t.rest]

\* The lines a source's text is read as.
LinesOf(name, text) == ReadToEof(name, text).lines

\* The text of the sources as given.
Given ==
  [n \in FileNames \cup {Dash} |->
     IF n = Dash THEN stdin.text ELSE disk[n].text]

\* The lines of the sources srcs read one after the other; rem is what the
\* sources hold: a stream is read up to its next end of file each time it
\* is a source, a regular file from start to end.
RECURSIVE InputLines(_, _)
InputLines(srcs, rem) ==
  IF srcs = <<>> THEN <<>>
  ELSE LET n == Head(srcs)
           t == ReadToEof(n, rem[n])
       IN t.lines \o InputLines(Tail(srcs),
                                IF Once(n) THEN [rem EXCEPT ![n] = t.rest]
                                           ELSE rem)

\* What the sources hold after the sources srcs were read.
RECURSIVE RemAfter(_, _)
RemAfter(srcs, rem) ==
  IF srcs = <<>> THEN rem
  ELSE LET n == Head(srcs) IN
       RemAfter(Tail(srcs),
                IF Once(n) THEN [rem EXCEPT ![n] = ReadToEof(n, rem[n]).rest]
                           ELSE rem)

AllInputLines == InputLines(Sources, Given)

\* The text a sequence of lines filters to.
Filtered(lines) == Flatten(SelectSeq(lines, Kept))

\* s is t with some elements left out, the order kept.
RECURSIVE IsSubseq(_, _)
IsSubseq(s, t) ==
  IF s = <<>> THEN TRUE
  ELSE IF t = <<>> THEN FALSE
  ELSE IF Head(s) = Head(t) THEN IsSubseq(Tail(s), Tail(t))
  ELSE IsSubseq(s, Tail(t))

\* The lines read so far, and what each iteration wrote.
LinesRead == [i \in 1..Len(log) |-> log[i].line]
Writes == [i \in 1..Len(log) |-> log[i].wrote]
NonEmpty(w) == w # <<>>
Written == SelectSeq(Writes, NonEmpty)

\* The text handed to standard output so far: what the descriptor took and
\* what sys.stdout holds for it; after the end of the process, what the
\* descriptor took.
Output == stdout \o buffer \o pending

\* Standard output is not one of the files that are read.
NotASource == sink.into = NoFile

\* Standard output takes all that the lines read so far filter to: no
\* write raises or is cut short, and the flush at exit succeeds.
Writable ==
  IF sink.room = NoLimit THEN TRUE
  ELSE Len(Filtered(LinesRead)) <= sink.room

\* The output of a run of the program on the one source name holding text:
\* the loop ends where the source signals end of file, and what was
\* written is flushed.
RECURSIVE Run(_, _, _)
Run(name, text, out) ==
  IF AtEof(text) THEN Flush(Flush(out)).out
  ELSE LET r == ReadLine(name, text) IN Run(name, r.rest, Body(r.line, out))

\* The first source that cannot be opened or read (0: all can).
FirstBad ==
  IF \E k \in 1..Len(Sources) : Fault(Sources[k]) # "none"
    THEN CHOOSE k \in 1..Len(Sources) :
           /\ Fault(Sources[k]) # "none"
           /\ \A j \in 1..(k - 1) : Fault(Sources[j]) = "none"
    ELSE 0

\* ------------------------------------------------------------ claims

\* C1, standard output taking all that is written: a line that starts with
\* import and does not hold import Foundation is never written and nothing
\* is written in its place: the iteration on it hands nothing to standard
\* output, the output is exactly what the other iterations wrote, and as
\* many lines are written as there are lines read that do not start with
\* import or hold import Foundation.
C1_DroppedLinesLeaveNoTrace ==
  /\ \A i \in 1..Len(log) :
       (StartsWith(log[i].raw, Import) /\ ~Contains(ImportFoundation, log[i].raw))
         => log[i].wrote = <<>>
  /\ Writable =>
       /\ Output = Flatten(Writes)
       /\ Len(Written) =
            Cardinality({i \in 1..Len(log) :
               ~StartsWith(log[i].raw, Import) \/ Contains(ImportFoundation, log[i].raw)})

\* imports = 5 was read and dropped, a kept line was read after it, and the
\* run has ended, standard output having taken what was written.
C1_Witness ==
  /\ Writable /\ pc = "exit" /\ stdout # <<>>
  /\ \E i \in 1..Len(log) : \E j \in (i + 1)..Len(log) :
       /\ StartsWith(log[i].raw, Import \o <<"s">>)
       /\ log[i].wrote = <<>>
       /\ log[j].wrote # <<>>

\* C2, standard output taking all that is written: a line that does not
\* start with import (tested on the raw line, case and leading blanks
\* included) is written unchanged, as it is in the source.
C2_NonImportLinesEmitted ==
  Writable =>
    \A i \in 1..Len(log) :
       ~StartsWith(log[i].raw, Import) => log[i].wrote = log[i].raw

\* C3, standard output taking all that is written: a line that starts with
\* import and holds import Foundation at any offset is written unchanged,
\* as it is in the source.
C3_FoundationLinesEmitted ==
  Writable =>
    \A i \in 1..Len(log) :
       (StartsWith(log[i].raw, Import) /\ Contains(ImportFoundation, log[i].raw))
         => log[i].wrote = log[i].raw

\* C4 as stated, standard output taking all that is written: what the
\* iterations wrote are, in the order written, lines of the sources in the
\* order the sources are given, none written more often than it occurs
\* there, and the output is these lines one after the other.
C4_OrderPreserved ==
  Writable =>
    /\ IsSubseq(Written, AllInputLines)
    /\ Output = Flatten(Written)

\* C4, amended: the same, when standard output is not one of the files read.
C4_OrderPreservedUnlessRead ==
  (Writable /\ NotASource) =>
    /\ IsSubseq(Written, AllInputLines)
    /\ Output = Flatten(Written)

\* Two different lines from two different sources were written to a
\* standard output that is not a file read, and the run has ended.
C4_Witness ==
  /\ Writable /\ NotASource /\ pc = "exit"
  /\ Len(Written) = 2
  /\ Written[1] # Written[2]
  /\ stdout = Written[1] \o Written[2]
  /\ \E i \in 1..Len(log) : \E j \in 1..Len(log) :
       log[i].src < log[j].src /\ log[i].wrote # <<>> /\ log[j].wrote # <<>>

\* Every line read but the last one read ends with a line feed: no line
\* without a terminator has been followed by another line.
OnlyLastUnterminated ==
  \A i \in 1..(Len(log) - 1) : log[i].line[Len(log[i].line)] = LF

\* C5 as stated, standard output taking all that is written: whatever the
\* sources, a second run that reads the output of a run that ended normally
\* from its standard input writes that output again.
C5_IdempotentOnAnyInput ==
  (pc = "exit" /\ exitCode = 0 /\ Writable) => Run(Dash, stdout, Pipe) = stdout

\* C5, amended: when no line without a terminator was followed by another
\* line, a second run that reads the output from standard input writes it
\* again, and so does one that reads it as a named file if the output holds
\* no carriage return.
C5_IdempotentOnTerminatedInput ==
  (pc = "exit" /\ OnlyLastUnterminated /\ Writable) =>
    /\ Run(Dash, stdout, Pipe) = stdout
    /\ (\A i \in 1..Len(stdout) : stdout[i] # CR)
          => Run("a", stdout, Pipe) = stdout

\* A run over two sources ended that dropped a line and wrote an indented
\* import, the last line read being the only one that may lack a
\* terminator.
C5_Witness ==
  /\ pc = "exit" /\ exitCode = 0 /\ Writable
  /\ OnlyLastUnterminated
  /\ Len(opened) = 2
  /\ \E i \in 1..Len(log) : log[i].wrote = <<>>
  /\ \E i \in 1..Len(log) :
       StartsWith(log[i].raw, <<" ">>) /\ log[i].wrote # <<>>
  /\ stdout # <<>>

\* C6 as stated, standard output taking all that is written: when the first
\* source that cannot be opened or read is the k-th, the run ends with a
\* nonzero exit code, k sources were opened or tried, no line of the k-th was
\* written, and the output is the filtered lines of sources 1..k-1.
C6_NothingOfFailingSource ==
  (pc = "exit" /\ FirstBad # 0 /\ Writable) =>
    /\ exitCode # 0
    /\ opened = SubSeq(Sources, 1, FirstBad)
    /\ \A i \in 1..Len(log) : log[i].src = FirstBad => log[i].wrote = <<>>
    /\ stdout = Filtered(InputLines(SubSeq(Sources, 1, FirstBad - 1), Given))

\* C6, amended: the run ends with a nonzero exit code and no source after the
\* k-th is opened; standard output taking all that is written, k sources were
\* opened or tried and the output is the filtered lines of sources 1..k-1
\* followed, when the k-th was opened and a read of it failed, by the
\* filtered lines of the k-th that were read before the failure; when the
\* k-th cannot be opened nothing of it is written.
C6_AbortKeepsEarlierOutput ==
  (pc = "exit" /\ FirstBad # 0) =>
    LET k == FirstBad
        earlier == SubSeq(Sources, 1, k - 1)
        before == InputLines(earlier, Given)
        ofK == LinesOf(Sources[k], RemAfter(earlier, Given)[Sources[k]])
    IN
    /\ exitCode # 0
    /\ \E m \in 0..k : opened = SubSeq(Sources, 1, m)
    /\ \A i \in 1..Len(log) : log[i].src <= k
    /\ Writable => opened = SubSeq(Sources, 1, k)
    /\ (Writable /\ NotASource) =>
         IF Fault(Sources[k]) = "open"
              THEN stdout = Filtered(before)
              ELSE \E m \in 0..Len(ofK) :
                     stdout = Filtered(before \o SubSeq(ofK, 1, m))

\* A read of the second source failed after a line of it was read and
\* written; the line the first source filtered to and that line are the
\* output.
C6_Witness ==
  /\ pc = "exit" /\ exitCode = 1 /\ Writable
  /\ Len(argv) = 2 /\ FirstBad = 2
  /\ Fault(argv[2]) = "read"
  /\ Len(log) = 2 /\ log[1].src = 1 /\ log[2].src = 2
  /\ log[1].wrote # <<>> /\ log[2].wrote # <<>>
  /\ stdout = log[1].wrote \o log[2].wrote

\* C7 as stated: with one argument or more every argument names a file and
\* standard input is not read; with none standard input is what is read.
C7_ArgumentsAreFiles ==
  /\ Len(argv) >= 1 =>
       /\ unread[Dash] = stdin.text
       /\ \A i \in 1..Len(log) : opened[log[i].src] \in FileNames
  /\ Len(argv) = 0 => \A i \in 1..Len(log) : opened[log[i].src] = Dash

\* C7, amended: every argument other than - names a file and - stands for
\* standard input; the sources are opened in the order given, all lines of
\* one before any line of the next.  Standard input is read only if there
\* is no argument or one of them is -.  A run that ends with exit code 0 has
\* opened every source and read each of them completely: a regular file to
\* its end, a stream to the end of file that the reading of it met; the
\* lines read are the lines of the sources as given, unless standard output
\* was added to one of them meanwhile.
C7_SourceSelection ==
  /\ \E k \in 0..Len(Sources) : opened = SubSeq(Sources, 1, k)
  /\ \A i \in 1..Len(log) : \A j \in i..Len(log) : log[i].src <= log[j].src
  /\ \A i \in 1..Len(log) : Contains(log[i].raw, Text(opened[log[i].src]))
  /\ unread[Dash] # stdin.text
       => (Len(argv) = 0 \/ \E k \in 1..Len(argv) : argv[k] = Dash)
  /\ (pc = "exit" /\ exitCode = 0) =>
       /\ opened = Sources
       /\ \A n \in Names(argv) \ {Dash} : ~Once(n) => unread[n] = <<>>
       /\ \A n \in FileNames \cup {Dash} :
            Once(n) => unread[n] = RemAfter(Sources, Given)[n]
       /\ NotASource => LinesRead = AllInputLines

\* A run with a file and - as arguments ended normally, lines of both the
\* file and standard input having been read.
C7_Witness ==
  /\ pc = "exit" /\ exitCode = 0
  /\ Len(argv) = 2 /\ argv[1] \in FileNames /\ argv[2] = Dash
  /\ Len(log) = 2 /\ log[1].src = 1 /\ log[2].src = 2

\* C8, standard output taking all that is written: every line written is
\* written as it was in the source, with the terminator it has there.
C8_TerminatorsPreserved ==
  Writable =>
    \A i \in 1..Len(log) : log[i].wrote # <<>> => log[i].wrote = log[i].raw

\* Every source the command line designates can be opened and read.
AllReadable == FirstBad = 0

\* Standard output takes all that the input filters to.
Roomy ==
  IF sink.room = NoLimit THEN TRUE
  ELSE Len(Filtered(AllInputLines)) <= sink.room

\* C9 as stated, for a run that has ended, standard output taking all that
\* the input filters to: when every source can be opened and read, the exit
\* code is 0 and every line of the input was read.
C9_ReadableInputExitsZero ==
  (pc = "exit" /\ AllReadable /\ Roomy) =>
    /\ exitCode = 0
    /\ LinesRead = AllInputLines

\* C9, amended: when every source can be opened and read and standard
\* output is not one of the files read, the run ends with exit code 0, every
\* line of the input having been read and decided once, in order; with no
\* line to read the output is empty.
C9_TerminatesWithZero ==
  (AllReadable /\ Roomy /\ NotASource) ~>
    (/\ pc = "exit" /\ exitCode = 0
     /\ LinesRead = AllInputLines
     /\ stdout = Filtered(AllInputLines)
     /\ AllInputLines = <<>> => stdout = <<>>)

\* A run over two readable sources, standard output not being one of them,
\* ended with 0 after reading two lines.
C9_Witness ==
  /\ AllReadable /\ Roomy /\ NotASource
  /\ pc = "exit" /\ exitCode = 0
  /\ Len(opened) = 2 /\ Len(log) = 2
  /\ log[1].wrote = <<>> /\ log[2].wrote # <<>>

\* C10 as stated, standard output taking all that is written: at every
\* moment the lines read are the first lines of the input, the output
\* written so far is what these lines filter to, and two lines with the
\* same content are decided alike.
C10_Lockstep ==
  Writable =>
    LET k == Len(log)
        first == SubSeq(AllInputLines, 1, Len(log))
    IN
    /\ Len(first) = k
    /\ LinesRead = first
    /\ stdout = Filtered(first)
    /\ \A i \in 1..k : \A j \in 1..k :
         log[i].line = log[j].line => log[i].wrote = log[j].wrote

\* C10, amended: two lines with the same content are decided alike; when
\* standard output is not one of the files read, at every moment the lines
\* read are the first lines of the input and the text handed to standard
\* output so far is what these lines filter to; an unbuffered standard
\* output has written it all, a buffered one has when the run has ended.
C10_LockstepOfWhatIsHanded ==
  LET k == Len(log)
      first == SubSeq(AllInputLines, 1, Len(log))
  IN
  /\ \A i \in 1..k : \A j \in 1..k :
       log[i].line = log[j].line => log[i].wrote = log[j].wrote
  /\ NotASource => (Len(first) = k /\ LinesRead = first)
  /\ (Writable /\ NotASource) =>
       /\ Output = Filtered(first)
       /\ (sink.mode = "unbuffered" \/ pc = "exit") => stdout = Filtered(first)

\* The loop is under way with a buffered standard output that is not a file
\* read: one line was read and handed to it, none of it has been written
\* yet, and the next line is still unread.
C10_Witness ==
  /\ Writable /\ NotASource
  /\ pc = "loop" /\ file # NoFile
  /\ Len(log) = 1 /\ Output = log[1].line /\ Output # <<>>
  /\ stdout = <<>>
  /\ ~AtEof(unread[file])

====
